---- MODULE Spec2Model ----
(***************************************************************************)
(* Parser combinators, the path-query grammar and the evaluator of         *)
(* src/parser.ts (and its earlier compiled form, src/unnamed/part_000).    *)
(*                                                                         *)
(* A JavaScript string is a sequence of one-character strings.  Every      *)
(* JavaScript value carries a tag t: "str", "arr", "num", "obj", "block",  *)
(* "undefined", "error".  A ParserResult is Null or Ok(val, rem).          *)
(* A parser (a closure in the source) is a record naming the combinator    *)
(* that built it and the arguments it captured; Apply(p, str) runs the     *)
(* closure's body on str.                                                  *)
(***************************************************************************)
EXTENDS Integers, Sequences, FiniteSets, TLC

\* ------------------------------------------------------------- bounds
MaxLen == 4          \* longest generated input string
MaxIter == 2         \* iterations of many beyond the input's length before a loop that never ends is cut
MaxStack == 60       \* largest call-stack limit of the engine that is explored

\* ------------------------------------------------------------- values
Str(s) == [t |-> "str", v |-> s]
Arr(a) == [t |-> "arr", v |-> a]
Num(n) == [t |-> "num", v |-> n]
Obj(f) == [t |-> "obj", v |-> f]
Undefined == [t |-> "undefined"]
TypeError == [t |-> "error", v |-> "TypeError"]
Null == [t |-> "null"]
Ok(val, rem) == [t |-> "ok", val |-> val, rem |-> rem]

Block(w, idx) == [t |-> "block", word |-> w, index |-> idx]

isOk(res) == res # Null

Digits == <<"0", "1", "2", "3", "4", "5", "6", "7", "8", "9">>
Lower == <<"a", "b", "c", "d", "e", "f", "g", "h", "i", "j", "k", "l", "m",
           "n", "o", "p", "q", "r", "s", "t", "u", "v", "w", "x", "y", "z">>
Upper == <<"A", "B", "C", "D", "E", "F", "G", "H", "I", "J", "K", "L", "M",
           "N", "O", "P", "Q", "R", "S", "T", "U", "V", "W", "X", "Y", "Z">>
ALPHA_NUM == Lower \o Upper \o Digits

Range(s) == {s[i] : i \in DOMAIN s}

\* ------------------------------------------------- parsers as closures
CharPredicate(fn) == [k |-> "charPredicate", fn |-> fn]
Map(q, fn) == [k |-> "map", p |-> q, fn |-> fn]
And(q1, q2) == [k |-> "and", p1 |-> q1, p2 |-> q2]
Or(q1, q2) == [k |-> "or", p1 |-> q1, p2 |-> q2]
Then(q1, q2) == [k |-> "then", p1 |-> q1, p2 |-> q2]
Before(q1, q2) == [k |-> "before", p1 |-> q1, p2 |-> q2]
Many(q) == [k |-> "many", p |-> q]
Some(q) == [k |-> "some", p |-> q]
Maybe(q) == [k |-> "maybe", p |-> q]
\* A parser that is none of the library's: it takes the first character and
\* hands back the rest with that character moved to the end, so its
\* remainder is as long as the input's tail plus one and is no suffix of it.
Rotate == [k |-> "rotate"]
\* The use of a grammar rule inside the other rule's chain.
Rule(name) == [k |-> "rule", name |-> name]

\* char(c): c is a string; a c that is not one character long throws.
Char(c) ==
    IF Len(c) # 1 THEN [k |-> "throw", v |-> "Error"]
    ELSE CharPredicate({c[1]})

\* -------------------------------------------------- the map functions
RECURSIVE Flatten(_)
Flatten(ss) == IF ss = <<>> THEN <<>> ELSE Head(ss).v \o Flatten(Tail(ss))

\* s => s.join("")
join(lst) == Str(Flatten(lst.v))

\* arr[i] of JavaScript (0-based); out of range is undefined
JsIndex(arr, i) == IF (i + 1) \in DOMAIN arr.v THEN arr.v[i + 1] ELSE Undefined

\* ([word, maybeWords]) => {word, index}
mkBlock(pair) ==
    LET w == pair.v[1]
        maybeWords == pair.v[2]
    IN  IF Len(maybeWords.v) = 0
        THEN Block(w, Arr(<<>>))
        ELSE Block(w, JsIndex(maybeWords, 1))

\* ([b, lst]) => [b, ...lst]
cons(pair) == Arr(<<pair.v[1]>> \o pair.v[2].v)

ApplyFn(fn, v) ==
    CASE fn = "join" -> join(v)
      [] fn = "fst" -> v.v[1]
      [] fn = "snd" -> v.v[2]
      [] fn = "cons" -> cons(v)
      [] fn = "mkBlock" -> mkBlock(v)

\* ------------------------------------------------------- the grammar
alphaNumericChar == CharPredicate(Range(ALPHA_NUM))
word == Map(Some(alphaNumericChar), "join")

\* The chain each factory's return expression denotes.  The call of the
\* other factory inside it is kept as Rule(name) and resolved when the chain
\* is applied to an input: this is the parser the chain would be once both
\* calls had returned.  The calls themselves, as the source makes them while
\* the module loads, are the actions Call, Overflow and Return below.
blockFactory ==
    Map(And(word,
            Maybe(Then(Char(<<"[">>),
                       Before(Rule("blockSequenceFactory"), Char(<<"]">>))))),
        "mkBlock")

\* The chain blockSequenceFactory() returns.
blockSequenceFactory ==
    Map(And(Rule("blockFactory"),
            Many(Then(Char(<<".">>), Rule("blockFactory")))),
        "cons")

RuleBody(name) ==
    CASE name = "blockFactory" -> blockFactory
      [] name = "blockSequenceFactory" -> blockSequenceFactory

block == Rule("blockFactory")
blockSequence == Rule("blockSequenceFactory")
query == blockSequence

\* The grammar of part_000: a block is a word, brackets are not handled.
blockJs == Map(Some(alphaNumericChar), "join")
blockSequenceJs == Map(And(blockJs, Many(Then(Char(<<".">>), blockJs))), "cons")
queryJs == blockSequenceJs

\* ---------------------------------------------------- the combinators
RECURSIVE Apply(_, _)
RECURSIVE manyLoop(_, _)

charPredicate(fn, str) ==
    IF Len(str) = 0 THEN Null
    ELSE IF str[1] \notin fn THEN Null
    ELSE Ok(Str(<<str[1]>>), Tail(str))

rotate(str) ==
    IF Len(str) = 0 THEN Null
    ELSE Ok(Str(<<str[1]>>), Tail(str) \o <<str[1]>>)

map(q, fn, str) ==
    LET result == Apply(q, str)
    IN  IF ~isOk(result) THEN Null
        ELSE Ok(ApplyFn(fn, result.val), result.rem)

\* and with p2 run on the whole input instead of p1's remainder
andRestart(q1, q2, str) ==
    LET res1 == Apply(q1, str)
    IN  IF ~isOk(res1) THEN Null
        ELSE LET res2 == Apply(q2, str)
             IN  IF ~isOk(res2) THEN Null
                 ELSE Ok(Arr(<<res1.val, res2.val>>), res2.rem)

and(q1, q2, str) ==
    LET res1 == Apply(q1, str)
    IN  IF ~isOk(res1) THEN Null
        ELSE LET res2 == Apply(q2, res1.rem)
             IN  IF ~isOk(res2) THEN Null
                 ELSE Ok(Arr(<<res1.val, res2.val>>), res2.rem)

then(q1, q2, str) == map(And(q1, q2), "snd", str)

before(q1, q2, str) == map(And(q1, q2), "fst", str)

or(q1, q2, str) ==
    LET res == Apply(q1, str)
    IN  IF isOk(res) THEN res ELSE Apply(q2, str)

\* many: the locals before the loop, the loop's test, its body, its return
manyInit(q, str) == [res |-> <<>>, rem |-> str, maybeRes |-> Apply(q, str)]

\* the loop's test without the progress check
manyCondNoProgress(st) == isOk(st.maybeRes)

manyCond(st) == isOk(st.maybeRes) /\ st.maybeRes.rem # st.rem

manyBody(q, st) ==
    [rem |-> st.maybeRes.rem,
     res |-> Append(st.res, st.maybeRes.val),
     maybeRes |-> Apply(q, st.maybeRes.rem)]

\* many failing when nothing was counted
manyReturnNonEmpty(st) == IF st.res = <<>> THEN Null ELSE Ok(Arr(st.res), st.rem)

manyReturn(st) == Ok(Arr(st.res), st.rem)

manyLoop(q, st) ==
    IF manyCond(st) THEN manyLoop(q, manyBody(q, st)) ELSE manyReturn(st)

many(q, str) == manyLoop(q, manyInit(q, str))

\* some forgetting the first result
someReturnRest(res, lst) == lst

\* some: what it returns once p succeeded with res and many(p) gave lst
someReturn(res, lst) ==
    IF ~isOk(lst) THEN Null
    ELSE Ok(Arr(<<res.val>> \o lst.val.v), lst.rem)

some(q, str) ==
    LET res == Apply(q, str)
    IN  IF ~isOk(res) THEN Null
        ELSE someReturn(res, many(q, res.rem))

maybe(q, str) ==
    LET res == Apply(q, str)
    IN  IF ~isOk(res) THEN Ok(Arr(<<>>), str)
        ELSE Ok(Arr(<<res.val>>), res.rem)

Apply(q, str) ==
    CASE q.k = "charPredicate" -> charPredicate(q.fn, str)
      [] q.k = "map" -> map(q.p, q.fn, str)
      [] q.k = "and" -> and(q.p1, q.p2, str)
      [] q.k = "or" -> or(q.p1, q.p2, str)
      [] q.k = "then" -> then(q.p1, q.p2, str)
      [] q.k = "before" -> before(q.p1, q.p2, str)
      [] q.k = "many" -> many(q.p, str)
      [] q.k = "some" -> some(q.p, str)
      [] q.k = "maybe" -> maybe(q.p, str)
      [] q.k = "rotate" -> rotate(str)
      [] q.k = "rule" -> Apply(RuleBody(q.name), str)

\* ------------------------------------------------------ the evaluator
IsDigit(c) == c \in Range(Digits)
DigitVal(c) == CHOOSE i \in 0..(Len(Digits) - 1) : Digits[i + 1] = c

RECURSIVE NumOf(_)
NumOf(key) ==
    IF key = <<>> THEN 0
    ELSE NumOf(SubSeq(key, 1, Len(key) - 1)) * Len(Digits) + DigitVal(key[Len(key)])

\* a canonical array index: decimal digits without a leading zero
IsIndex(key) ==
    /\ Len(key) >= 1
    /\ \A i \in DOMAIN key : IsDigit(key[i])
    /\ (Len(key) = 1 \/ key[1] # "0")

KeyLength == <<"l", "e", "n", "g", "t", "h">>
KeyObject == <<"[", "o", "b", "j", "e", "c", "t", " ", "O", "b", "j", "e", "c", "t", "]">>

\* the property key a value used in acc[val] is converted to
ToPropertyKey(val) ==
    CASE val.t = "str" -> val.v
      [] val.t \in {"block", "obj"} -> KeyObject
      [] OTHER -> <<>>

\* acc[val] of JavaScript; reading a property of undefined throws TypeError
GetProp(acc, val) ==
    LET key == ToPropertyKey(val)
    IN  CASE acc.t \in {"undefined", "null"} -> TypeError
          [] acc.t = "obj" ->
                IF key \in DOMAIN acc.v THEN acc.v[key] ELSE Undefined
          [] acc.t = "arr" ->
                IF IsIndex(key) /\ NumOf(key) < Len(acc.v) THEN acc.v[NumOf(key) + 1]
                ELSE IF key = KeyLength THEN Num(Len(acc.v))
                ELSE Undefined
          [] acc.t = "str" ->
                IF IsIndex(key) /\ NumOf(key) < Len(acc.v)
                THEN Str(<<acc.v[NumOf(key) + 1]>>)
                ELSE IF key = KeyLength THEN Num(Len(acc.v))
                ELSE Undefined
          [] OTHER -> Undefined

\* arr.reduce((acc, val) => acc[val], acc); a throw ends the reduction
RECURSIVE reduce(_, _)
reduce(arr, acc) ==
    IF arr = <<>> THEN acc
    ELSE LET next == GetProp(acc, Head(arr))
         IN  IF next.t = "error" THEN next ELSE reduce(Tail(arr), next)

RECURSIVE Reverse(_)
Reverse(a) == IF a = <<>> THEN <<>> ELSE Append(Reverse(Tail(a)), Head(a))

\* the reduction taken from the last word to the first
parser1Right(context, arr) == reduce(Reverse(arr.v), context)

parser1(context, arr) == reduce(arr.v, context)

ParseError == [t |-> "error", v |-> "error"]

\* part_000, lines 198-203: parse, then evaluate the parsed sequence
resolve(q, path, context) ==
    LET query_r == Apply(q, path)
    IN  IF query_r # Null THEN parser1(context, query_r.val) ELSE ParseError

context ==
    Obj(<<"n", "a", "m", "e">> :> Str(<<"D", "o", "n", "a", "l", "d">>)
     @@ <<"a", "g", "e">> :> Num(18)
     @@ <<"a", "d", "d", "r", "e", "s", "s">> :> Obj(<<"c", "i", "t", "y">> :> Str(<<"N", "e", "w", " ", "Y", "o", "r", "k">>))
     @@ <<"b", "o", "o", "k", "s">> :>
           Arr(<<Obj(<<"t", "i", "t", "l", "e">> :> Str(<<"T", "r", "e", "a", "s", "u", "r", "e", " ", "I", "s", "l", "a", "n", "d">>) @@ <<"p", "a", "g", "e", "s">> :> Num(312)),
                 Obj(<<"t", "i", "t", "l", "e">> :> Str(<<"O", "l", "i", "v", "e", "r", " ", "T", "w", "i", "s", "t">>) @@ <<"p", "a", "g", "e", "s">> :> Num(299))>>)
     @@ <<"c", "u", "r", "r", "e", "n", "t", "B", "o", "o", "k">> :> Num(1))

\* ------------------------------------------------------------- inputs
Chars == {"a", "1", "[", "]", "."}

RECURSIVE StringsUpTo(_)
StringsUpTo(n) ==
    IF n = 0 THEN {<<>>}
    ELSE LET shorter == StringsUpTo(n - 1)
         IN  shorter \cup {Append(s, c) : s \in {t \in shorter : Len(t) = n - 1}, c \in Chars}

PathAddressCity == <<"a", "d", "d", "r", "e", "s", "s", ".", "c", "i", "t", "y">>
PathBooksIndexed == <<"b", "o", "o", "k", "s", "[", "c", "u", "r", "r", "e", "n", "t", "B", "o", "o", "k", "]", ".", "p", "a", "g", "e", "s">>
PathBooksOne == <<"b", "o", "o", "k", "s", "[", "1", "]", ".", "p", "a", "g", "e", "s">>
PathNested == <<"a", "[", "1", "[", "a", "]", ".", "a", "]", ".", "1">>

ExampleInputs == {PathAddressCity, PathBooksIndexed, PathBooksOne, PathNested}
Inputs == StringsUpTo(MaxLen) \cup ExampleInputs

Ka == <<"a">>
K1 == <<"1">>
Leaves == {Num(1), Str(<<"a", "1">>)}
Inner ==
    {Obj(Ka :> l) : l \in Leaves}
    \cup {Obj(Ka :> l1 @@ K1 :> l2) : l1 \in Leaves, l2 \in Leaves}
    \cup {Arr(<<Num(1), Obj(K1 :> Num(2))>>)}
SmallContexts ==
    {Obj(Ka :> v1 @@ K1 :> Num(1)) : v1 \in Inner}
    \cup {Obj(K1 :> Arr(<<Num(1), Obj(K1 :> Num(2))>>))}
Contexts == {context} \cup SmallContexts

\* The parsers the combinators are run on.  Rotate is never put under many
\* or some inside another parser: only the stepped loop below runs it.
Parsers ==
    {Char(<<"a">>), Char(<<".">>), alphaNumericChar, word, block, blockSequence,
     blockJs, Maybe(Char(<<"a">>)), Many(Char(<<"a">>)), Some(Char(<<"1">>)),
     Then(Char(<<".">>), block), Before(alphaNumericChar, Char(<<".">>)),
     Or(Char(<<"a">>), Char(<<"[">>)), And(Char(<<"a">>), Char(<<"1">>)),
     Rotate}
FirstParsers ==
    {Char(<<"a">>), word, block, Maybe(Char(<<"[">>)), Rotate}
SecondParsers ==
    {Char(<<"1">>), Char(<<"]">>), word, blockSequence, Maybe(Char(<<"a">>))}

NoParser == [k |-> "none"]
NoState == [res |-> <<>>, rem |-> <<>>, maybeRes |-> Null]
NoResult == [t |-> "none"]

\* -------------------------------------------------------------- state
VARIABLES
    op,       \* the operation under way
    p,        \* its parser (many, some, block, query), or p1 of and
    p2,       \* p2 of and
    str,      \* the input string
    ctx,      \* the context of resolve
    pc,       \* "start", "many" (inside many's loop), "done"
    st,       \* many's locals res, rem, maybeRes
    first,    \* some's res
    result,   \* what the operation returned
    stack,    \* grammar construction: the call stack, innermost frame last
    limit,    \* grammar construction: the engine's call-stack limit
    load      \* grammar construction: "loading", "loaded", "RangeError"

runVars == <<op, p, p2, str, ctx, pc, st, first, result>>
buildVars == <<stack, limit, load>>
vars == <<op, p, p2, str, ctx, pc, st, first, result, stack, limit, load>>

NoBuild == stack = <<>> /\ limit = 0 /\ load = "loading"

Init ==
    /\ \/ /\ op \in {"many", "some"}
          /\ p \in Parsers
          /\ p2 = NoParser
          /\ ctx = Undefined
       \/ /\ op = "and"
          /\ p \in FirstParsers
          /\ p2 \in SecondParsers
          /\ ctx = Undefined
       \/ /\ op = "parse"
          /\ p \in {block, blockSequence, query}
          /\ p2 = NoParser
          /\ ctx = Undefined
       \/ /\ op = "resolve"
          /\ p \in {query, queryJs}
          /\ p2 = NoParser
          /\ ctx \in Contexts
    /\ str \in Inputs
    /\ pc = "start"
    /\ st = NoState
    /\ first = Null
    /\ result = NoResult
    /\ NoBuild

\* many(p)(str) is called: the locals are set and p is run once
CallMany ==
    /\ pc = "start" /\ op = "many"
    /\ st' = manyInit(p, str)
    /\ pc' = "many"
    /\ UNCHANGED <<op, p, p2, str, ctx, first, result, buildVars>>

\* some(p)(str) is called: p is run; a failure returns null, a success
\* enters many(p) on the remainder
CallSome ==
    /\ pc = "start" /\ op = "some"
    /\ LET res == Apply(p, str)
       IN  IF ~isOk(res)
           THEN /\ result' = Null
                /\ pc' = "done"
                /\ UNCHANGED <<st, first>>
           ELSE /\ first' = res
                /\ st' = manyInit(p, res.rem)
                /\ pc' = "many"
                /\ UNCHANGED result
    /\ UNCHANGED <<op, p, p2, str, ctx, buildVars>>

\* one turn of many's while loop
ManyIterate ==
    /\ pc = "many"
    /\ manyCond(st)
    /\ Len(st.res) < Len(str) + MaxIter
    /\ st' = manyBody(p, st)
    /\ UNCHANGED <<op, p, p2, str, ctx, pc, first, result, buildVars>>

\* the loop's test fails: many returns (and some maps its result)
ManyReturn ==
    /\ pc = "many"
    /\ ~manyCond(st)
    /\ result' = IF op = "some" THEN someReturn(first, manyReturn(st))
                 ELSE manyReturn(st)
    /\ pc' = "done"
    /\ UNCHANGED <<op, p, p2, str, ctx, st, first, buildVars>>

\* and(p1, p2)(str)
CallAnd ==
    /\ pc = "start" /\ op = "and"
    /\ result' = and(p, p2, str)
    /\ pc' = "done"
    /\ UNCHANGED <<op, p, p2, str, ctx, st, first, buildVars>>

\* block(str), blockSequence(str), query(str)
CallParse ==
    /\ pc = "start" /\ op = "parse"
    /\ result' = Apply(p, str)
    /\ pc' = "done"
    /\ UNCHANGED <<op, p, p2, str, ctx, st, first, buildVars>>

\* the query is parsed and the parsed sequence evaluated on the context
CallResolve ==
    /\ pc = "start" /\ op = "resolve"
    /\ result' = resolve(p, str, ctx)
    /\ pc' = "done"
    /\ UNCHANGED <<op, p, p2, str, ctx, st, first, buildVars>>

Next ==
    \/ CallMany
    \/ CallSome
    \/ ManyIterate
    \/ ManyReturn
    \/ CallAnd
    \/ CallParse
    \/ CallResolve

Spec == Init /\ [][Next]_vars

\* ------------------------------------------- building the grammar
\* What a call evaluates, in order, before it returns: the calls in the
\* argument positions of its return expression, innermost and leftmost
\* first.  The module's frame runs lines 247 and 248.
Program(fn) ==
    CASE fn = "module" -> <<"blockFactory", "blockSequenceFactory">>
      [] fn = "blockFactory" ->
            <<"char", "blockSequenceFactory", "char", "before", "then", "maybe",
              "and", "map">>
      [] fn = "blockSequenceFactory" ->
            <<"blockFactory", "char", "blockFactory", "then", "many", "and", "map">>
      [] fn = "char" -> <<"charPredicate">>
      [] OTHER -> <<>>

Top == stack[Len(stack)]
WantsCall == stack # <<>> /\ Top.pc <= Len(Program(Top.fn))

InitBuild ==
    /\ op = "build"
    /\ p = NoParser
    /\ p2 = NoParser
    /\ str = <<>>
    /\ ctx = Undefined
    /\ pc = "done"
    /\ st = NoState
    /\ first = Null
    /\ result = NoResult
    /\ stack = <<[fn |-> "module", pc |-> 1]>>
    /\ limit \in 1..MaxStack
    /\ load = "loading"

\* the running function calls the next function of its return expression
Call ==
    /\ load = "loading"
    /\ WantsCall
    /\ Len(stack) < limit
    /\ stack' = Append(stack, [fn |-> Program(Top.fn)[Top.pc], pc |-> 1])
    /\ UNCHANGED <<limit, load, runVars>>

\* the call does not fit the stack: RangeError, caught nowhere
Overflow ==
    /\ load = "loading"
    /\ WantsCall
    /\ Len(stack) >= limit
    /\ stack' = <<>>
    /\ load' = "RangeError"
    /\ UNCHANGED <<limit, runVars>>

\* the running function has made all its calls and returns its parser
Return ==
    /\ load = "loading"
    /\ stack # <<>>
    /\ ~WantsCall
    /\ IF Len(stack) = 1
       THEN /\ stack' = <<>>
            /\ load' = "loaded"
       ELSE /\ stack' = [SubSeq(stack, 1, Len(stack) - 1)
                            EXCEPT ![Len(stack) - 1].pc = @ + 1]
            /\ UNCHANGED load
    /\ UNCHANGED <<limit, runVars>>

NextBuild ==
    \/ Call
    \/ Overflow
    \/ Return

SpecBuild == InitBuild /\ [][NextBuild]_vars
\* ============================================================ claims
Done(o) == pc = "done" /\ op = o
IsAlnum(c) == c \in Range(ALPHA_NUM)
Books == <<"b", "o", "o", "k", "s">>
Pages == <<"p", "a", "g", "e", "s">>
NoIndex == Arr(<<>>)

\* the words of a dotted path, split at the dots
RECURSIVE SplitDots(_, _)
SplitDots(s, cur) ==
    IF s = <<>> THEN <<cur>>
    ELSE IF Head(s) = "." THEN <<cur>> \o SplitDots(Tail(s), <<>>)
    ELSE SplitDots(Tail(s), Append(cur, Head(s)))

IsDottedPath(s) ==
    /\ \A i \in DOMAIN s : IsAlnum(s[i]) \/ s[i] = "."
    /\ \A i \in DOMAIN SplitDots(s, <<>>) : SplitDots(s, <<>>)[i] # <<>>

\* w + "[" + q with w a word, q a dotted path and no "]" to close the bracket
Unclosed(s) ==
    \E i \in 2..Len(s) :
        /\ \A j \in 1..(i - 1) : IsAlnum(s[j])
        /\ s[i] = "["
        /\ IsDottedPath(SubSeq(s, i + 1, Len(s)))

\* C1: the Block parser and the query parser fail on a word followed by an
\* opened bracket that is never closed.
UnclosedBracketFails ==
    (Done("parse") /\ Unclosed(str)) => result = Null

\* the bracket group after a block's word: '[' blockSequence ']'
BracketGroup == Then(Char(<<"[">>), Before(blockSequence, Char(<<"]">>)))

\* C2: a parsed Block carries the matched identifier as word and, as index,
\* the inner block sequence of its bracket group when the group matched and
\* the empty sequence otherwise; "books[1].pages" gives books with index
\* [1] and pages with no index.
BlockIndexIsInnerSequence ==
    /\ (Done("parse") /\ p = block /\ isOk(result)) =>
          LET w == Apply(word, str)
              g == Apply(BracketGroup, w.rem)
          IN  /\ result.val.word = w.val
              /\ result.val.index = (IF isOk(g) THEN g.val ELSE NoIndex)
    /\ (Done("parse") /\ p = query /\ str = PathBooksOne) =>
          result = Ok(Arr(<<Block(Str(Books), Arr(<<Block(Str(<<"1">>), NoIndex)>>)),
                            Block(Str(Pages), NoIndex)>>), <<>>)

\* C3: resolving "books[currentBook].pages" on the demonstration context
\* gives 299, the index being resolved against the root and selecting the
\* element of books.
IndexResolvedAgainstRoot ==
    (Done("resolve") /\ str = PathBooksIndexed /\ ctx = context) => result = Num(299)

\* every word of ws names a field of the record reached so far
RECURSIVE Reaches(_, _)
Reaches(v, ws) ==
    \/ ws = <<>>
    \/ /\ v.t = "obj"
       /\ Head(ws) \in DOMAIN v.v
       /\ Reaches(v.v[Head(ws)], Tail(ws))

RECURSIVE Reached(_, _)
Reached(v, ws) == IF ws = <<>> THEN v ELSE Reached(v.v[Head(ws)], Tail(ws))

AddressCityWitness ==
    /\ Done("resolve") /\ p = queryJs /\ str = PathAddressCity /\ ctx = context
    /\ result = Str(<<"N", "e", "w", " ", "Y", "o", "r", "k">>)

\* the text of a block sequence: words joined by '.', an index in brackets
RECURSIVE Renderable(_)
Renderable(bs) ==
    \A i \in DOMAIN bs : bs[i].index.t = "arr" /\ Renderable(bs[i].index.v)

RECURSIVE Render(_)
Render(bs) ==
    IF bs = <<>> THEN <<>>
    ELSE LET b == Head(bs)
             one == b.word.v \o (IF b.index.v = <<>> THEN <<>>
                                 ELSE <<"[">> \o Render(b.index.v) \o <<"]">>)
         IN  IF Tail(bs) = <<>> THEN one ELSE one \o <<".">> \o Render(Tail(bs))

\* C5: a successfully parsed block sequence, rendered back to text and
\* parsed again, gives an equal structure and an empty remainder.
ParseRenderRoundTrip ==
    (Done("parse") /\ p = query /\ isOk(result)) =>
        /\ Renderable(result.val.v)
        /\ Apply(query, Render(result.val.v)) = Ok(result.val, <<>>)

\* res and rem are what the counted iterations of q from s give: each element
\* is q's value on the remainder before it, each iteration changes the
\* remainder, and q fails or makes no progress on rem
RECURSIVE Counted(_, _, _, _)
Counted(q, s, res, rem) ==
    LET r == Apply(q, s)
    IN  IF res = <<>>
        THEN rem = s /\ (r = Null \/ r.rem = s)
        ELSE /\ r # Null
             /\ r.rem # s
             /\ r.val = Head(res)
             /\ Counted(q, r.rem, Tail(res), rem)

\* C6: many(p)(s) never returns a failure: it returns the values of p's
\* counted iterations with the remainder after the last of them.
ManyNeverFails ==
    Done("many") =>
        /\ result # Null
        /\ result.t = "ok"
        /\ result.val.t = "arr"
        /\ Counted(p, str, result.val.v, result.rem)

ManyNeverFailsWitness ==
    /\ Done("many") /\ isOk(result)
    /\ Len(result.val.v) >= 2
    /\ result.rem # <<>>

ManyZeroWitness ==
    /\ Done("many") /\ isOk(result)
    /\ result.val.v = <<>> /\ result.rem = str /\ str # <<>>

\* C7: some(p)(s) fails exactly when p(s) fails; when p(s) succeeds it
\* succeeds with at least one element, the first being p's value on s.
SomeFailsIffFirstFails ==
    Done("some") =>
        LET r == Apply(p, str)
        IN  /\ (result = Null) <=> (r = Null)
            /\ r # Null =>
                  /\ result.t = "ok"
                  /\ Len(result.val.v) >= 1
                  /\ result.val.v[1] = r.val

SomeWitness ==
    /\ Done("some") /\ isOk(result) /\ Len(result.val.v) >= 2

SomeFailureWitness ==
    /\ Done("some") /\ result = Null /\ str # <<>>

\* C8: and(p1, p2)(s) succeeds exactly when p1 succeeds on s and p2 on p1's
\* remainder; its value is the pair of the two values, its remainder p2's.
AndSucceedsIffBoth ==
    Done("and") =>
        LET r1 == Apply(p, str)
            r2 == Apply(p2, r1.rem)
        IN  /\ isOk(result) <=> (r1 # Null /\ r2 # Null)
            /\ isOk(result) =>
                  /\ result.val = Arr(<<r1.val, r2.val>>)
                  /\ result.rem = r2.rem

AndWitness ==
    /\ Done("and") /\ isOk(result)
    /\ result.rem # str /\ result.rem # <<>>
    /\ Apply(p, str).rem # result.rem

AndSecondFailsWitness ==
    /\ Done("and") /\ result = Null /\ Apply(p, str) # Null

\* C9: building the grammar ends with the parsers built.
GrammarIsBuilt == (stack = <<>>) => load = "loaded"

IsSuffix(t, s) == Len(t) <= Len(s) /\ t = SubSeq(s, Len(s) - Len(t) + 1, Len(s))

\* The parsers whose successful remainder is a suffix of their input: all
\* but Rotate.  ManyTerminates checks this of every parser and input.
SuffixParser(q) == q # Rotate

\* C10: for a parser whose remainder is a suffix of its input, many's loop
\* ends: every counted iteration shortens the remainder, the iterations
\* never outnumber the input's characters (so the loop is never cut short
\* and always has its next step), the loop is left at p's first failure or
\* first success without progress, and a p that succeeds without consuming
\* gives no repetition and the original remainder.
ManyTerminates ==
    [][(op = "many" /\ SuffixParser(p)) =>
        /\ CallMany =>
              /\ isOk(Apply(p, str)) => IsSuffix(Apply(p, str).rem, str)
              /\ st'.res = <<>> /\ st'.rem = str
        /\ ManyIterate => Len(st'.rem) < Len(st.rem)
        /\ (CallMany \/ ManyIterate) =>
              /\ Len(st'.res) + Len(st'.rem) <= Len(str)
              /\ (isOk(st'.maybeRes) /\ st'.maybeRes.rem # st'.rem)
                    => Len(st'.res) < Len(str) + MaxIter
        /\ ManyReturn =>
              /\ st.maybeRes = Null \/ st.maybeRes.rem = st.rem
              /\ Len(result'.val.v) <= Len(str)
              /\ (isOk(Apply(p, str)) /\ Apply(p, str).rem = str)
                    => result' = Ok(Arr(<<>>), str)]_vars

ManyTerminatesWitness ==
    /\ Done("many") /\ SuffixParser(p)
    /\ Len(result.val.v) >= 3

ManyZeroWidthWitness ==
    /\ Done("many") /\ SuffixParser(p) /\ str # <<>>
    /\ isOk(Apply(p, str)) /\ Apply(p, str).rem = str
    /\ result = Ok(Arr(<<>>), str)
====
